---- MODULE Spec2Model ----
(***************************************************************************)
(* Model of src/src/App.jsx: the two SingleTimer instances mounted by      *)
(* StopwatchApp (STATION A = "timer1", STATION B = "timer2").              *)
(*                                                                         *)
(* Every useState cell of SingleTimer is a variable indexed by the timer   *)
(* id and holds the latest value written by a setter.  The two refs        *)
(* (timerRef, alarmIntervalRef) are modelled by the liveness of the        *)
(* interval they hold.  The callback registered by the effect of lines     *)
(* 108-130 closes over the values of the render that registered it; these  *)
(* captured values are the variables cap*.  A click or input handler is a  *)
(* discrete React event: its render and its effect run before any other    *)
(* task, so the handler action re-registers the callback itself; the       *)
(* callback it registers first runs 50 ms later (line 125), after every     *)
(* render task queued before it, so it sees the latest state.  State        *)
(* written from inside the interval callback is rendered by a later task   *)
(* (action Rerender); until then the registered callback is the old one,   *)
(* and an interval that is already due can run it again.                   *)
(***************************************************************************)
EXTENDS Integers, Sequences, FiniteSets, TLC

VARIABLES
    operated,            \* the stations whose controls are used in this run
    timeline,            \* the clock values at which Date.now() is observed in this run
    presets,             \* the preset buttons pressed in this run
    texts,               \* the texts typed into the alarm input in this run
    now,                 \* value returned by Date.now()
    audioCtx,            \* audioCtxRef.current: "none", or the state of the AudioContext
    isRunning,           \* useState, line 37
    startTime,           \* useState, line 39
    accumulatedTime,     \* useState, line 40
    displayTime,         \* useState, line 41
    sessionStartTime,    \* useState, line 44
    stopTime,            \* useState, line 45
    alarmDuration,       \* useState, line 48
    alarmTriggeredTime,  \* useState, line 49
    isAlarmRinging,      \* useState, line 50
    timerRef,            \* TRUE iff the interval held by timerRef is live
    alarmIntervalRef,    \* TRUE iff alarmIntervalRef.current holds an interval
    beepIntervals,       \* number of live intervals registered at line 96
    capStartTime,        \* startTime seen by the registered tick callback
    capAccumulatedTime,  \* accumulatedTime seen by the registered tick callback
    capAlarmDuration,    \* alarmDuration seen by the registered tick callback
    capAlarmTriggeredTime, \* alarmTriggeredTime seen by the registered tick callback
    renderPending,       \* a write to alarmTriggeredTime made by a tick is not rendered yet
    ev,                  \* the last event: operation, timer, whether playAlarmSound ran
    segStart,            \* observer: clock value of the last start event of the session
    segSum,              \* observer: sum of (pause time - start time) of completed segments
    sinceReset,          \* observer: a reset happened and no start since
    refired,             \* observer: triggerAlarm ran with the alarm time already set, since the last reset
    silencedBy           \* observer: "pause" / "reset" once that operation silenced a ringing alarm

stateVars == <<isRunning, startTime, accumulatedTime, displayTime, sessionStartTime,
               stopTime, alarmDuration, alarmTriggeredTime, isAlarmRinging>>
refVars == <<timerRef, alarmIntervalRef, beepIntervals>>
capVars == <<capStartTime, capAccumulatedTime, capAlarmDuration, capAlarmTriggeredTime,
             renderPending>>
obsVars == <<segStart, segSum, sinceReset, refired, silencedBy>>
envVars == <<operated, timeline, presets, texts>>
vars == <<envVars, now, audioCtx, stateVars, refVars, capVars, ev, obsVars>>

----------------------------------------------------------------------------
(* Bounds and program constants *)

\* the clock is observed at the instants Instant(0) .. Instant(MaxInstant)
MaxInstant == 6
\* the two-station runs observe, among Instant(0) .. Instant(MaxInstantDual),
\* the instant 0 and those from one minute on
MaxInstantDual == 4

Null == -1
Timers == {"timer1", "timer2"}
InitialAlarmDuration == 15
MsPerMinute == 60 * 1000

\* clock values used by the scenarios of the specification (ms)
Instant(k) ==
    CASE k = 0 -> 0
      [] k = 1 -> 10000
      [] k = 2 -> 20000
      [] k = 3 -> 25000
      [] k = 4 -> 60000
      [] k = 5 -> 65000
      [] k = 6 -> 120000
      [] OTHER -> 120000 + (k - 6) * 10000

Instants == {Instant(k) : k \in 0..MaxInstant}
DualInstants ==
    {t \in {Instant(k) : k \in 0..MaxInstantDual} : t = 0 \/ t >= MsPerMinute}

----------------------------------------------------------------------------
(* Values of alarmDuration: a number (preset button) or the text of the input *)

Num(n) == [isNum |-> TRUE, num |-> n, txt |-> <<>>]
Txt(t) == [isNum |-> FALSE, num |-> 0, txt |-> t]

Presets == {15, 20, 30}
InputTexts == {<<>>, <<"0">>, <<"1">>, <<"2">>, <<"a">>, <<"-", "1">>}
\* the part of the texts used in the runs with fairness: empty, and two
\* thresholds that the timeline reaches
LiveTexts == {<<>>, <<"1">>, <<"2">>}
\* the part of them used in the two-station runs
DualPresets == {15}
DualTexts == {<<"1">>}

Digits == {"0", "1", "2", "3", "4", "5", "6", "7", "8", "9"}
DigitVal(c) ==
    CASE c = "0" -> 0 [] c = "1" -> 1 [] c = "2" -> 2 [] c = "3" -> 3 [] c = "4" -> 4
      [] c = "5" -> 5 [] c = "6" -> 6 [] c = "7" -> 7 [] c = "8" -> 8 [] c = "9" -> 9

RECURSIVE DecimalValue(_)
DecimalValue(t) ==
    IF t = <<>> THEN 0
    ELSE 10 * DecimalValue(SubSeq(t, 1, Len(t) - 1)) + DigitVal(t[Len(t)])

AllDigits(t) == \A k \in 1..Len(t) : t[k] \in Digits

\* Number(text) is NaN
IsNaN(t) ==
    IF t = <<>> THEN FALSE
    ELSE IF t[1] = "-" THEN Len(t) = 1 \/ ~AllDigits(Tail(t))
    ELSE ~AllDigits(t)

\* Number(alarmDuration) || 0
DurationVal(d) ==
    IF d.isNum THEN d.num
    ELSE IF IsNaN(d.txt) THEN 0
    ELSE IF d.txt = <<>> THEN 0
    ELSE IF d.txt[1] = "-" THEN 0 - DecimalValue(Tail(d.txt))
    ELSE DecimalValue(d.txt)

AlarmMs(d) == DurationVal(d) * MsPerMinute

\* JavaScript truthiness of a timestamp-or-null
Falsy(x) == x = Null \/ x = 0
\* a - b where null converts to 0
Minus(a, b) == a - (IF b = Null THEN 0 ELSE b)

----------------------------------------------------------------------------
(* The tone generator *)

\* audioCtxRef.current after StopwatchApp's mount effect, lines 302-306: no
\* AudioContext at all, a running one, a suspended one, or one whose
\* synthesis calls throw
AudioStates == {"none", "running", "suspended", "failing"}
\* the part of them used in the two-station runs
DualAudioStates == {"running"}

\* ctx.resume() on a suspended context, lines 60 and 135
Resumed(ctx) == IF ctx = "suspended" THEN "running" ELSE ctx

\* variant of playAlarmSound: no try / catch
playAlarmSoundNoCatch(ctx) ==
    CASE ctx = "none" -> "silent"
      [] ctx = "failing" -> "thrown"
      [] OTHER -> "played"

\* playAlarmSound, lines 56-89: how the call ends
playAlarmSound(ctx) ==
    CASE ctx = "none" -> "silent"
      [] ctx = "failing" -> "caught"
      [] OTHER -> "played"

----------------------------------------------------------------------------
(* The event record: which operation ran last, on which timer, and whether
   playAlarmSound was called in that step *)

Event(op, id, beep) == [op |-> op, id |-> id, beep |-> beep]

----------------------------------------------------------------------------
(* Initial state: both timers as constructed by useState / useRef *)

InitTimers ==
    /\ now = Instant(0)
    /\ isRunning = [i \in Timers |-> FALSE]
    /\ startTime = [i \in Timers |-> Null]
    /\ accumulatedTime = [i \in Timers |-> 0]
    /\ displayTime = [i \in Timers |-> 0]
    /\ sessionStartTime = [i \in Timers |-> Null]
    /\ stopTime = [i \in Timers |-> Null]
    /\ alarmDuration = [i \in Timers |-> Num(InitialAlarmDuration)]
    /\ alarmTriggeredTime = [i \in Timers |-> Null]
    /\ isAlarmRinging = [i \in Timers |-> FALSE]
    /\ timerRef = [i \in Timers |-> FALSE]
    /\ alarmIntervalRef = [i \in Timers |-> FALSE]
    /\ beepIntervals = [i \in Timers |-> 0]
    /\ capStartTime = [i \in Timers |-> Null]
    /\ capAccumulatedTime = [i \in Timers |-> 0]
    /\ capAlarmDuration = [i \in Timers |-> Num(InitialAlarmDuration)]
    /\ capAlarmTriggeredTime = [i \in Timers |-> Null]
    /\ renderPending = [i \in Timers |-> FALSE]
    /\ ev = Event("init", "none", FALSE)
    /\ segStart = [i \in Timers |-> Null]
    /\ segSum = [i \in Timers |-> 0]
    /\ sinceReset = [i \in Timers |-> FALSE]
    /\ refired = [i \in Timers |-> FALSE]
    /\ silencedBy = [i \in Timers |-> "none"]

\* one station is used, over the whole timeline
Init ==
    /\ operated = {"timer1"}
    /\ timeline = Instants
    /\ presets = Presets
    /\ texts = InputTexts
    /\ audioCtx = "running"
    /\ InitTimers

\* both stations are used, over the short timeline
InitDual ==
    /\ operated = Timers
    /\ timeline = DualInstants
    /\ presets = DualPresets
    /\ texts = DualTexts
    /\ audioCtx \in DualAudioStates
    /\ InitTimers

\* one station is used, over the whole timeline, with the texts LiveTexts
InitLive ==
    /\ operated = {"timer1"}
    /\ timeline = Instants
    /\ presets = Presets
    /\ texts = LiveTexts
    /\ audioCtx = "running"
    /\ InitTimers

\* one station is used, over the short timeline, with every kind of tone generator
InitAudio ==
    /\ operated = {"timer1"}
    /\ timeline = DualInstants
    /\ presets = DualPresets
    /\ texts = DualTexts
    /\ audioCtx \in AudioStates
    /\ InitTimers

----------------------------------------------------------------------------
(* Helpers shared by the handlers *)

\* variant of stopAlarm: the interval is not cleared
stopAlarmKeepsInterval(i) ==
    /\ isAlarmRinging' = [isAlarmRinging EXCEPT ![i] = FALSE]
    /\ UNCHANGED <<alarmIntervalRef, beepIntervals>>

\* variant of stopAlarm: one interval handle and one ringing flag for both stations
stopAlarmShared(i) ==
    /\ alarmIntervalRef' = [j \in Timers |-> FALSE]
    /\ beepIntervals' = [j \in Timers |-> 0]
    /\ isAlarmRinging' = [j \in Timers |-> FALSE]

\* variant of stopAlarm: the ringing flag is not cleared
stopAlarmKeepsRinging(i) ==
    /\ alarmIntervalRef' = [alarmIntervalRef EXCEPT ![i] = FALSE]
    /\ beepIntervals' = [beepIntervals EXCEPT ![i] = IF alarmIntervalRef[i] THEN @ - 1 ELSE @]
    /\ UNCHANGED isAlarmRinging

\* stopAlarm, lines 99-105
stopAlarm(i) ==
    /\ alarmIntervalRef' = [alarmIntervalRef EXCEPT ![i] = FALSE]
    /\ beepIntervals' = [beepIntervals EXCEPT ![i] = IF alarmIntervalRef[i] THEN @ - 1 ELSE @]
    /\ isAlarmRinging' = [isAlarmRinging EXCEPT ![i] = FALSE]

\* variant of triggerAlarm: the repeating beep is not registered
triggerAlarmNoRepeat(i, timestamp) ==
    /\ alarmTriggeredTime' = [alarmTriggeredTime EXCEPT ![i] = timestamp]
    /\ isAlarmRinging' = [isAlarmRinging EXCEPT ![i] = TRUE]
    /\ alarmIntervalRef' = [alarmIntervalRef EXCEPT ![i] = FALSE]
    /\ beepIntervals' = [beepIntervals EXCEPT ![i] = IF alarmIntervalRef[i] THEN @ - 1 ELSE @]
    /\ audioCtx' = Resumed(audioCtx)

\* variant of triggerAlarm: the interval held by alarmIntervalRef is not cleared
triggerAlarmNoClear(i, timestamp) ==
    /\ alarmTriggeredTime' = [alarmTriggeredTime EXCEPT ![i] = timestamp]
    /\ isAlarmRinging' = [isAlarmRinging EXCEPT ![i] = TRUE]
    /\ alarmIntervalRef' = [alarmIntervalRef EXCEPT ![i] = TRUE]
    /\ beepIntervals' = [beepIntervals EXCEPT ![i] = @ + 1]
    /\ audioCtx' = Resumed(audioCtx)

\* triggerAlarm, lines 91-97: the interval held by alarmIntervalRef is
\* replaced, unless the call of playAlarmSound (line 94) throws
triggerAlarm(i, timestamp) ==
    /\ alarmTriggeredTime' = [alarmTriggeredTime EXCEPT ![i] = timestamp]
    /\ isAlarmRinging' = [isAlarmRinging EXCEPT ![i] = TRUE]
    /\ alarmIntervalRef' = [alarmIntervalRef EXCEPT
                               ![i] = IF playAlarmSound(audioCtx) = "thrown" THEN @ ELSE TRUE]
    /\ beepIntervals' = [beepIntervals EXCEPT
                            ![i] = IF playAlarmSound(audioCtx) = "thrown" THEN @
                                   ELSE (IF alarmIntervalRef[i] THEN @ - 1 ELSE @) + 1]
    /\ audioCtx' = Resumed(audioCtx)

\* variant of TimerEffect: no cleanup, an interval once registered stays live
TimerEffectNoCleanup(i, running, st, acc, dur, trig) ==
    /\ timerRef' = [timerRef EXCEPT ![i] = running \/ @]
    /\ renderPending' = [renderPending EXCEPT ![i] = FALSE]
    /\ capStartTime' = [capStartTime EXCEPT ![i] = st]
    /\ capAccumulatedTime' = [capAccumulatedTime EXCEPT ![i] = acc]
    /\ capAlarmDuration' = [capAlarmDuration EXCEPT ![i] = dur]
    /\ capAlarmTriggeredTime' = [capAlarmTriggeredTime EXCEPT ![i] = trig]

\* The effect of lines 108-130 run for a render: the old interval is cleared
\* (line 129) and, if running, a callback closing over the rendered values is
\* registered (lines 110-125).
TimerEffect(i, running, st, acc, dur, trig) ==
    /\ timerRef' = [timerRef EXCEPT ![i] = running]
    /\ renderPending' = [renderPending EXCEPT ![i] = FALSE]
    /\ capStartTime' = [capStartTime EXCEPT ![i] = st]
    /\ capAccumulatedTime' = [capAccumulatedTime EXCEPT ![i] = acc]
    /\ capAlarmDuration' = [capAlarmDuration EXCEPT ![i] = dur]
    /\ capAlarmTriggeredTime' = [capAlarmTriggeredTime EXCEPT ![i] = trig]

----------------------------------------------------------------------------
(* Operations *)

\* the START / RESUME button is rendered only while not running, lines 230-236
CanStart(i) == ~isRunning[i]

\* variant of CanPause: the PAUSE button is always there
CanPauseAlways(i) == TRUE

\* the PAUSE button is rendered only while running, lines 237-244
CanPause(i) == isRunning[i]

\* the RESET button is disabled until the first start, lines 246-252 and 171
CanReset(i) == sessionStartTime[i] # Null

\* handleStart, lines 133-142
Start(i) ==
    /\ CanStart(i)
    /\ sessionStartTime' = [sessionStartTime EXCEPT
                              ![i] = IF Falsy(@) THEN now ELSE @]
    /\ startTime' = [startTime EXCEPT ![i] = now]
    /\ isRunning' = [isRunning EXCEPT ![i] = TRUE]
    /\ stopTime' = [stopTime EXCEPT ![i] = Null]
    /\ TimerEffect(i, TRUE, now, accumulatedTime[i], alarmDuration[i],
                   alarmTriggeredTime[i])
    /\ ev' = Event("start", i, FALSE)
    /\ segStart' = [segStart EXCEPT ![i] = now]
    /\ sinceReset' = [sinceReset EXCEPT ![i] = FALSE]
    /\ audioCtx' = Resumed(audioCtx)
    /\ UNCHANGED <<envVars, now, accumulatedTime, displayTime, alarmDuration, alarmTriggeredTime,
                   isAlarmRinging, alarmIntervalRef, beepIntervals, segSum, refired,
                   silencedBy>>

\* variant of handleStop: the segment just run is not added to accumulatedTime
PauseDropsSegment(i) ==
    /\ CanPause(i)
    /\ TimerEffect(i, FALSE, startTime[i], accumulatedTime[i], alarmDuration[i],
                   alarmTriggeredTime[i])
    /\ stopTime' = [stopTime EXCEPT ![i] = now]
    /\ isRunning' = [isRunning EXCEPT ![i] = FALSE]
    /\ stopAlarm(i)
    /\ ev' = Event("pause", i, FALSE)
    /\ segSum' = [segSum EXCEPT ![i] = @ + (now - segStart[i])]
    /\ silencedBy' = [silencedBy EXCEPT ![i] = IF isAlarmRinging[i] THEN "pause" ELSE @]
    /\ UNCHANGED refired
    /\ UNCHANGED <<envVars, now, audioCtx, startTime, accumulatedTime, displayTime,
                   sessionStartTime, alarmDuration, alarmTriggeredTime, segStart, sinceReset>>

\* handleStop, lines 144-151
Pause(i) ==
    /\ CanPause(i)
    /\ LET currentSessionDuration == Minus(now, startTime[i])
           acc == accumulatedTime[i] + currentSessionDuration
       IN  /\ accumulatedTime' = [accumulatedTime EXCEPT ![i] = acc]
           /\ TimerEffect(i, FALSE, startTime[i], acc, alarmDuration[i],
                          alarmTriggeredTime[i])
    /\ stopTime' = [stopTime EXCEPT ![i] = now]
    /\ isRunning' = [isRunning EXCEPT ![i] = FALSE]
    /\ stopAlarm(i)
    /\ ev' = Event("pause", i, FALSE)
    /\ segSum' = [segSum EXCEPT ![i] = @ + (now - segStart[i])]
    /\ silencedBy' = [silencedBy EXCEPT ![i] = IF isAlarmRinging[i] THEN "pause" ELSE @]
    /\ UNCHANGED refired
    /\ UNCHANGED <<envVars, now, audioCtx, startTime, displayTime, sessionStartTime, alarmDuration,
                   alarmTriggeredTime, segStart, sinceReset>>

\* variant of handleReset: the threshold is put back to its initial value
ResetRestoresThreshold(i) ==
    /\ CanReset(i)
    /\ isRunning' = [isRunning EXCEPT ![i] = FALSE]
    /\ startTime' = [startTime EXCEPT ![i] = Null]
    /\ accumulatedTime' = [accumulatedTime EXCEPT ![i] = 0]
    /\ displayTime' = [displayTime EXCEPT ![i] = 0]
    /\ sessionStartTime' = [sessionStartTime EXCEPT ![i] = Null]
    /\ stopTime' = [stopTime EXCEPT ![i] = Null]
    /\ alarmTriggeredTime' = [alarmTriggeredTime EXCEPT ![i] = Null]
    /\ alarmDuration' = [alarmDuration EXCEPT ![i] = Num(InitialAlarmDuration)]
    /\ stopAlarm(i)
    /\ TimerEffect(i, FALSE, Null, 0, Num(InitialAlarmDuration), Null)
    /\ ev' = Event("reset", i, FALSE)
    /\ segStart' = [segStart EXCEPT ![i] = Null]
    /\ segSum' = [segSum EXCEPT ![i] = 0]
    /\ sinceReset' = [sinceReset EXCEPT ![i] = TRUE]
    /\ silencedBy' = [silencedBy EXCEPT ![i] = IF isAlarmRinging[i] THEN "reset" ELSE "none"]
    /\ refired' = [refired EXCEPT ![i] = FALSE]
    /\ UNCHANGED <<envVars, now, audioCtx>>

\* handleReset, lines 153-162
Reset(i) ==
    /\ CanReset(i)
    /\ isRunning' = [isRunning EXCEPT ![i] = FALSE]
    /\ startTime' = [startTime EXCEPT ![i] = Null]
    /\ accumulatedTime' = [accumulatedTime EXCEPT ![i] = 0]
    /\ displayTime' = [displayTime EXCEPT ![i] = 0]
    /\ sessionStartTime' = [sessionStartTime EXCEPT ![i] = Null]
    /\ stopTime' = [stopTime EXCEPT ![i] = Null]
    /\ alarmTriggeredTime' = [alarmTriggeredTime EXCEPT ![i] = Null]
    /\ stopAlarm(i)
    /\ TimerEffect(i, FALSE, Null, 0, alarmDuration[i], Null)
    /\ ev' = Event("reset", i, FALSE)
    /\ segStart' = [segStart EXCEPT ![i] = Null]
    /\ segSum' = [segSum EXCEPT ![i] = 0]
    /\ sinceReset' = [sinceReset EXCEPT ![i] = TRUE]
    /\ silencedBy' = [silencedBy EXCEPT ![i] = IF isAlarmRinging[i] THEN "reset" ELSE "none"]
    /\ refired' = [refired EXCEPT ![i] = FALSE]
    /\ UNCHANGED <<envVars, now, audioCtx, alarmDuration>>

\* variant of setAlarmDuration: a new threshold re-arms the alarm
SetAlarmDurationRearms(i, d, op) ==
    /\ alarmDuration' = [alarmDuration EXCEPT ![i] = d]
    /\ alarmTriggeredTime' = [alarmTriggeredTime EXCEPT ![i] = Null]
    /\ stopAlarm(i)
    /\ TimerEffect(i, isRunning[i], startTime[i], accumulatedTime[i], d, Null)
    /\ ev' = Event(op, i, FALSE)
    /\ UNCHANGED <<envVars, now, audioCtx, isRunning, startTime, accumulatedTime, displayTime,
                   sessionStartTime, stopTime, obsVars>>

\* setAlarmDuration, shared by the preset buttons and the input
SetAlarmDuration(i, d, op) ==
    /\ alarmDuration' = [alarmDuration EXCEPT ![i] = d]
    /\ TimerEffect(i, isRunning[i], startTime[i], accumulatedTime[i], d,
                   alarmTriggeredTime[i])
    /\ ev' = Event(op, i, FALSE)
    /\ UNCHANGED <<envVars, now, audioCtx, isRunning, startTime, accumulatedTime, displayTime,
                   sessionStartTime, stopTime, alarmTriggeredTime, isAlarmRinging,
                   alarmIntervalRef, beepIntervals, obsVars>>

\* preset buttons, lines 191-199
SetPreset(i, m) == SetAlarmDuration(i, Num(m), "preset")

\* handleInputChange, lines 164-167
handleInputChange(i, val) ==
    SetAlarmDuration(i, IF val = <<>> THEN Txt(<<>>) ELSE Txt(val), "input")

\* variant of ShouldFire: the test durationVal > 0 is missing
ShouldFireNoPositiveTest(trig, dur, totalDuration) ==
    /\ Falsy(trig)
    /\ totalDuration >= AlarmMs(dur)

\* variant of ShouldFire: the total is not compared with the threshold
ShouldFireNoThreshold(trig, dur, totalDuration) ==
    /\ Falsy(trig)
    /\ DurationVal(dur) > 0

\* variant of ShouldFire: > instead of >=
ShouldFireStrict(trig, dur, totalDuration) ==
    /\ Falsy(trig)
    /\ DurationVal(dur) > 0
    /\ totalDuration > AlarmMs(dur)

\* the alarm check of the tick, lines 118-121
ShouldFire(trig, dur, totalDuration) ==
    /\ Falsy(trig)
    /\ DurationVal(dur) > 0
    /\ totalDuration >= AlarmMs(dur)

\* the callback of the display interval, lines 110-125, as registered
Tick(i) ==
    /\ timerRef[i]
    /\ LET currentSessionDuration == Minus(now, capStartTime[i])
           totalDuration == capAccumulatedTime[i] + currentSessionDuration
           fire == ShouldFire(capAlarmTriggeredTime[i], capAlarmDuration[i], totalDuration)
       IN  /\ displayTime' = [displayTime EXCEPT ![i] = totalDuration]
           /\ IF fire
              THEN /\ triggerAlarm(i, now)
                   /\ renderPending' = [renderPending EXCEPT ![i] = TRUE]
                   /\ ev' = Event("tick", i, TRUE)
                   /\ silencedBy' = [silencedBy EXCEPT
                                        ![i] = IF @ = "reset" THEN "none" ELSE @]
                   /\ refired' = [refired EXCEPT ![i] = @ \/ alarmTriggeredTime[i] # Null]
              ELSE /\ UNCHANGED <<audioCtx, alarmTriggeredTime, isAlarmRinging,
                                  alarmIntervalRef, beepIntervals, renderPending,
                                  silencedBy, refired>>
                   /\ ev' = Event("tick", i, FALSE)
    /\ UNCHANGED <<envVars, now, isRunning, startTime, accumulatedTime, sessionStartTime,
                   stopTime, alarmDuration, timerRef, capStartTime, capAccumulatedTime,
                   capAlarmDuration, capAlarmTriggeredTime, segStart, segSum, sinceReset>>

\* the render of the state written by a tick, and the effect run that follows it
\* (dependency alarmTriggeredTime changed, lines 129-130 then 109-125)
Rerender(i) ==
    /\ renderPending[i]
    /\ TimerEffect(i, isRunning[i], startTime[i], accumulatedTime[i], alarmDuration[i],
                   alarmTriggeredTime[i])
    /\ ev' = Event("render", i, FALSE)
    /\ UNCHANGED <<envVars, now, audioCtx, stateVars, alarmIntervalRef, beepIntervals, obsVars>>

\* the callback of the beep interval, line 96
Beep(i) ==
    /\ beepIntervals[i] > 0
    /\ ev' = Event("beep", i, TRUE)
    /\ audioCtx' = Resumed(audioCtx)
    /\ UNCHANGED <<envVars, now, stateVars, refVars, capVars, obsVars>>

\* the wall clock moves on to a later instant
Advance ==
    /\ \E t \in timeline : t > now /\ now' = t
    /\ ev' = Event("clock", "none", FALSE)
    /\ UNCHANGED <<envVars, audioCtx, stateVars, refVars, capVars, obsVars>>

Next ==
    \/ \E i \in operated : Start(i)
    \/ \E i \in operated : Pause(i)
    \/ \E i \in operated : Reset(i)
    \/ \E i \in operated : \E m \in presets : SetPreset(i, m)
    \/ \E i \in operated : \E val \in texts : handleInputChange(i, val)
    \/ \E i \in operated : Tick(i)
    \/ \E i \in operated : Rerender(i)
    \/ \E i \in operated : Beep(i)
    \/ Advance

Spec == Init /\ [][Next]_vars

SpecDual == InitDual /\ [][Next]_vars

SpecAudio == InitAudio /\ [][Next]_vars

\* Both intervals are timers of the browser: a registered callback that stays
\* registered is eventually called (lines 96 and 110).
SpecAudioLive ==
    /\ InitAudio
    /\ [][Next]_vars
    /\ \A i \in Timers : WF_vars(Tick(i)) /\ WF_vars(Beep(i))

\* setInterval keeps calling the registered tick callback (line 125)
SpecLive == InitLive /\ [][Next]_vars /\ \A i \in Timers : WF_vars(Tick(i))

----------------------------------------------------------------------------
(* Properties *)

\* a beep of timer i happened in the step that led to this state
Beeped(i) == ev.beep /\ ev.id = i

\* C1: the displayed duration equals the sum of the completed run-segments
\* whenever the timer is not running (in particular right after a pause), and
\* that sum plus the in-progress segment right after a tick.
C1_DisplayedIsSegmentSum ==
    \A i \in Timers :
        /\ ~isRunning[i] => displayTime[i] = segSum[i]
        /\ (isRunning[i] /\ ev = Event("tick", i, ev.beep))
               => displayTime[i] = segSum[i] + (now - segStart[i])

\* C2: after a reset and until the next start the timer is fully idle:
\* displayed 0, no session start, no alarm time, not ringing, and neither
\* interval is registered, whatever happens in between.
C2_ResetYieldsIdle ==
    \A i \in Timers :
        sinceReset[i] =>
            /\ displayTime[i] = 0
            /\ sessionStartTime[i] = Null
            /\ alarmTriggeredTime[i] = Null
            /\ ~isAlarmRinging[i]
            /\ ~isRunning[i]
            /\ ~timerRef[i]
            /\ ~alarmIntervalRef[i]

\* C2 witness: a reset was taken while the alarm was ringing, and the clock
\* has moved on since.
C2_Witness ==
    /\ sinceReset["timer1"]
    /\ silencedBy["timer1"] = "reset"
    /\ ev.op = "clock"

\* C3: once alarmTriggeredTime is set, only a reset changes it.
C3_AlarmSetOncePerSession ==
    [][\A i \in Timers :
          (alarmTriggeredTime[i] # Null /\ alarmTriggeredTime'[i] # alarmTriggeredTime[i])
              => ev' = Event("reset", i, FALSE)]_vars

\* C4: after a pause taken while ringing, the timer is not ringing in the
\* pause step and no beep of that timer happens for the rest of the session.
C4_NoBeepAfterPause ==
    \A i \in Timers :
        /\ ev = Event("pause", i, FALSE) => (~isAlarmRinging[i] /\ ~alarmIntervalRef[i])
        /\ silencedBy[i] = "pause" => ~Beeped(i)

\* C4 witness: the alarm was silenced by a pause, the timer was resumed and
\* a tick ran with the displayed value at or above the threshold.
C4_Witness ==
    /\ silencedBy["timer1"] = "pause"
    /\ isRunning["timer1"]
    /\ ev = Event("tick", "timer1", FALSE)
    /\ DurationVal(alarmDuration["timer1"]) > 0
    /\ displayTime["timer1"] >= AlarmMs(alarmDuration["timer1"])

\* C5: after a reset taken while ringing, the timer is not ringing, no beep
\* interval is registered and no beep of that timer happens, until a tick of a
\* new session (one started after the reset) fires the alarm.
C5_NoBeepAfterReset ==
    \A i \in Timers :
        /\ silencedBy[i] = "reset" =>
              (~isAlarmRinging[i] /\ ~alarmIntervalRef[i] /\ ~Beeped(i))
        /\ (sinceReset[i] /\ ev.id = i) => ev.op \in {"reset", "preset", "input"}

\* C5 witness: the alarm was ringing at the reset and a new session is now
\* running without having fired.
C5_Witness ==
    /\ silencedBy["timer1"] = "reset"
    /\ isRunning["timer1"]
    /\ ev.op = "tick"

Crossed(i) ==
    /\ isRunning[i]
    /\ alarmTriggeredTime[i] = Null
    /\ DurationVal(alarmDuration[i]) > 0
    /\ accumulatedTime[i] + (now - startTime[i]) >= AlarmMs(alarmDuration[i])

\* C7: once the running total has reached a positive threshold, the alarm
\* fires unless a pause, a reset or a threshold change intervenes; the tick
\* that finds the threshold reached fires it with the clock value it read, and
\* a tick that finds it not reached leaves the alarm unset.
C7_AlarmEventuallyFires ==
    /\ \A i \in Timers : Crossed(i) ~> ~Crossed(i)
    /\ [][\A i \in Timers :
             (ev'.op = "tick" /\ ev'.id = i /\ alarmTriggeredTime[i] = Null)
                 => IF Crossed(i)
                    THEN alarmTriggeredTime'[i] = now /\ isAlarmRinging'[i] /\ ev'.beep
                    ELSE alarmTriggeredTime'[i] = Null /\ ~ev'.beep]_vars

\* C7 witness: started at 0 with threshold 1 minute, never paused, the alarm
\* fired at 60000.
C7_Witness ==
    /\ ev = Event("tick", "timer1", TRUE)
    /\ alarmDuration["timer1"] = Txt(<<"1">>)
    /\ sessionStartTime["timer1"] = 0
    /\ startTime["timer1"] = 0
    /\ accumulatedTime["timer1"] = 0
    /\ alarmTriggeredTime["timer1"] = 60000
    /\ displayTime["timer1"] = 60000

\* C8: the display interval is registered only while running and the beep
\* interval only while ringing; a tick runs only on a running timer, a
\* repeated beep only on a ringing one, and right after a pause or reset
\* neither interval of that timer is registered.
C8_CallbacksTiedToState ==
    \A i \in Timers :
        /\ timerRef[i] => isRunning[i]
        /\ alarmIntervalRef[i] => isAlarmRinging[i]
        /\ (ev.op = "tick" /\ ev.id = i) => isRunning[i]
        /\ (ev.op = "beep" /\ ev.id = i) => isAlarmRinging[i]
        /\ (ev.op \in {"pause", "reset"} /\ ev.id = i)
               => (~timerRef[i] /\ ~alarmIntervalRef[i])

\* C8 witness: a pause has just silenced a ringing alarm.
C8_Witness ==
    /\ ev = Event("pause", "timer1", FALSE)
    /\ silencedBy["timer1"] = "pause"
    /\ alarmTriggeredTime["timer1"] # Null

\* every state field, ref and captured value of timer i
TimerState(i) ==
    <<isRunning[i], startTime[i], accumulatedTime[i], displayTime[i], sessionStartTime[i],
      stopTime[i], alarmDuration[i], alarmTriggeredTime[i], isAlarmRinging[i],
      timerRef[i], alarmIntervalRef[i], beepIntervals[i], capStartTime[i],
      capAccumulatedTime[i],
      capAlarmDuration[i], capAlarmTriggeredTime[i], renderPending[i]>>

\* C9: a step of one station (start, pause, reset, threshold change, tick,
\* render, beep) or of the clock leaves every field of the other station
\* unchanged.
C9_StationsIndependent ==
    [][\A i \in Timers : ev'.id # i => TimerState(i)' = TimerState(i)]_vars

\* C9 witness: station A is ringing while station B has just been reset.
C9_Witness ==
    /\ isAlarmRinging["timer1"]
    /\ alarmIntervalRef["timer1"]
    /\ ev = Event("reset", "timer2", FALSE)

\* C10: accumulatedTime changes only in a step that takes the timer from
\* running to not running, or in a reset; stopTime is written only by such a
\* step, a start or a reset; so no segment is added twice.
C10_PauseOnlyWhenRunning ==
    [][\A i \in Timers :
          /\ accumulatedTime'[i] # accumulatedTime[i]
                => \/ isRunning[i] /\ ~isRunning'[i]
                   \/ ev' = Event("reset", i, FALSE)
          /\ (ev'.op = "pause" /\ ev'.id = i) => isRunning[i]
          /\ (~isRunning[i] /\ ev'.op \notin {"start", "reset"})
                => /\ accumulatedTime'[i] = accumulatedTime[i]
                   /\ stopTime'[i] = stopTime[i]]_vars

\* C10 witness: start at 0, pause at 10000, resume at 20000, pause at 25000.
C10_Witness ==
    /\ ev = Event("pause", "timer1", FALSE)
    /\ startTime["timer1"] = 20000
    /\ stopTime["timer1"] = 25000
    /\ accumulatedTime["timer1"] = 15000

\* C11: whatever the tone generator does (no context, a suspended one, one
\* whose synthesis throws, a working one), a step that calls playAlarmSound
\* writes the same timer state: the tick that fires records the time, sets
\* ringing and registers the beep interval and changes nothing else but the
\* displayed value; a repeated beep changes no field; and every other step
\* is taken whatever the tone generator is.
C11_AudioNeverBlocks ==
    [][\A i \in Timers :
          (ev'.beep /\ ev'.id = i) =>
              IF ev'.op = "beep"
              THEN TimerState(i)' = TimerState(i)
              ELSE /\ alarmTriggeredTime'[i] = now
                   /\ isAlarmRinging'[i]
                   /\ alarmIntervalRef'[i]
                   /\ displayTime'[i] = accumulatedTime[i] + (now - startTime[i])
                   /\ <<isRunning[i], startTime[i], accumulatedTime[i], sessionStartTime[i],
                        stopTime[i], alarmDuration[i], timerRef[i]>>'
                        = <<isRunning[i], startTime[i], accumulatedTime[i],
                            sessionStartTime[i], stopTime[i], alarmDuration[i], timerRef[i]>>
      ]_vars

\* C11 witness: the synthesis failed in the tick that fired the alarm, and the
\* timer was then paused as usual.
C11_Witness ==
    /\ audioCtx = "failing"
    /\ ev = Event("pause", "timer1", FALSE)
    /\ silencedBy["timer1"] = "pause"
    /\ alarmTriggeredTime["timer1"] = 60000
    /\ accumulatedTime["timer1"] = 60000

\* C12: the alarm time goes from null to a timestamp only in a step taken
\* while the timer is running, with a positive threshold, and with the
\* displayed total of that step at or above threshold * 60000; so never
\* while idle or paused, and never before the threshold is reached.
C12_FiresOnlyRunningAtThreshold ==
    [][\A i \in Timers :
          (alarmTriggeredTime[i] = Null /\ alarmTriggeredTime'[i] # Null) =>
              /\ isRunning[i] /\ isRunning'[i]
              /\ DurationVal(alarmDuration[i]) > 0
              /\ displayTime'[i] >= DurationVal(alarmDuration[i]) * MsPerMinute
      ]_vars

\* C12 witness: the alarm has fired in a resumed session, at the first tick
\* whose total reached the one-minute threshold.
C12_Witness ==
    /\ ev = Event("tick", "timer1", TRUE)
    /\ alarmTriggeredTime["timer1"] = 65000
    /\ accumulatedTime["timer1"] = 10000
    /\ startTime["timer1"] = 10000
    /\ displayTime["timer1"] = 65000
    /\ alarmDuration["timer1"] = Txt(<<"1">>)

\* C13: the step that writes the alarm time writes the clock value read by
\* that tick, sets ringing, calls the beep once and leaves the repeating beep
\* registered; and whenever the alarm is ringing and the last event was not a
\* beep, a beep follows unless the timer is paused or reset first.
C13_FiringStepAndRepeat ==
    /\ [][\A i \in Timers :
            (alarmTriggeredTime'[i] # alarmTriggeredTime[i] /\ alarmTriggeredTime'[i] # Null) =>
                /\ alarmTriggeredTime'[i] = now
                /\ isAlarmRinging'[i]
                /\ ev' = Event("tick", i, TRUE)
                /\ alarmIntervalRef'[i]
        ]_vars
    /\ \A i \in Timers :
          (isAlarmRinging[i] /\ ev # Event("beep", i, TRUE))
              ~> (ev = Event("beep", i, TRUE) \/ ~isAlarmRinging[i])

\* C13 witness: the alarm fired at 60000 and a repeated beep has sounded
\* while it rings.
C13_Witness ==
    /\ ev = Event("beep", "timer1", TRUE)
    /\ isAlarmRinging["timer1"]
    /\ alarmIntervalRef["timer1"]
    /\ alarmTriggeredTime["timer1"] = 60000
    /\ isRunning["timer1"]

\* C14 as stated: a reset puts running, segment start, accumulated and stop
\* time back to their creation values and the threshold back to 15.
C14_ResetRestoresAll ==
    [][\A i \in Timers :
          ev' = Event("reset", i, FALSE) =>
              /\ ~isRunning'[i]
              /\ startTime'[i] = Null
              /\ accumulatedTime'[i] = 0
              /\ stopTime'[i] = Null
              /\ alarmDuration'[i] = Num(InitialAlarmDuration)
      ]_vars

\* C14 amended: a reset puts running, segment start, accumulated, displayed,
\* session start, stop time, alarm time and ringing back to their creation
\* values, and keeps the threshold the user configured.
C14_ResetKeepsThreshold ==
    [][\A i \in Timers :
          ev' = Event("reset", i, FALSE) =>
              /\ ~isRunning'[i]
              /\ startTime'[i] = Null
              /\ accumulatedTime'[i] = 0
              /\ displayTime'[i] = 0
              /\ sessionStartTime'[i] = Null
              /\ stopTime'[i] = Null
              /\ alarmTriggeredTime'[i] = Null
              /\ ~isAlarmRinging'[i]
              /\ alarmDuration'[i] = alarmDuration[i]
      ]_vars

\* C14 witness: a reset was taken with the threshold set to 1 by the input,
\* and the threshold is still 1.
C14_Witness ==
    /\ ev = Event("reset", "timer1", FALSE)
    /\ alarmDuration["timer1"] = Txt(<<"1">>)
    /\ startTime["timer1"] = Null
    /\ accumulatedTime["timer1"] = 0
    /\ stopTime["timer1"] = Null
    /\ ~isRunning["timer1"]

\* the ordering of the three timestamps when all are present, and stop time
\* present exactly in the paused state
TimestampsOrdered ==
    \A i \in Timers :
        /\ (sessionStartTime[i] # Null /\ startTime[i] # Null /\ stopTime[i] # Null)
               => (sessionStartTime[i] <= startTime[i] /\ startTime[i] <= stopTime[i])
        /\ (stopTime[i] # Null) <=> (~isRunning[i] /\ sessionStartTime[i] # Null)

\* C15: whenever session start, segment start and stop time are all present
\* they are in this order; stop time is present exactly in the paused state;
\* and a session start, once set (be it 0), is changed only by a reset.
C15_SessionTimestamps ==
    /\ []TimestampsOrdered
    /\ [][\A i \in Timers :
            (sessionStartTime[i] # Null /\ sessionStartTime'[i] # sessionStartTime[i])
                => ev' = Event("reset", i, FALSE)
        ]_vars

\* C16: only a reset makes the displayed value smaller; while the timer is
\* not running only a reset changes it; so the ticks of a running timer
\* never lower it and the first tick after a resume shows at least the
\* value shown while paused.
C16_DisplayedMonotonic ==
    [][\A i \in Timers :
          /\ displayTime'[i] < displayTime[i] => ev' = Event("reset", i, FALSE)
          /\ (~isRunning[i] /\ displayTime'[i] # displayTime[i]) => ev' = Event("reset", i, FALSE)
          /\ (ev'.op = "tick" /\ ev'.id = i) => (isRunning[i] /\ displayTime'[i] >= displayTime[i])
      ]_vars

\* C16 witness: a session started at 10000 and paused at 25000 was resumed
\* at 60000, and the first tick after the resume, at 65000, shows 20000.
C16_Witness ==
    /\ ev = Event("tick", "timer1", FALSE)
    /\ now = 65000
    /\ startTime["timer1"] = 60000
    /\ accumulatedTime["timer1"] = 15000
    /\ sessionStartTime["timer1"] = 10000
    /\ displayTime["timer1"] = 20000

\* the frame of a pause: session start, alarm time and threshold are kept
PauseFrame(i) ==
    ev' = Event("pause", i, FALSE) =>
        /\ sessionStartTime'[i] = sessionStartTime[i]
        /\ alarmTriggeredTime'[i] = alarmTriggeredTime[i]
        /\ alarmDuration'[i] = alarmDuration[i]
        /\ ~isAlarmRinging'[i] /\ ~alarmIntervalRef'[i]

\* the frame of a resume, a start in a session that has a session start:
\* accumulated and alarm time are kept and the stop time is cleared
ResumeFrame(i) ==
    (ev' = Event("start", i, FALSE) /\ sessionStartTime[i] # Null) =>
        /\ accumulatedTime'[i] = accumulatedTime[i]
        /\ alarmTriggeredTime'[i] = alarmTriggeredTime[i]
        /\ stopTime'[i] = Null

\* a resume keeps the session start
ResumeKeepsSessionStart(i) ==
    (ev' = Event("start", i, FALSE) /\ sessionStartTime[i] # Null) =>
        sessionStartTime'[i] = sessionStartTime[i]

\* a session whose alarm fired and was silenced by a pause makes no beep
SilentAfterPause(i) ==
    (alarmTriggeredTime[i] # Null /\ silencedBy[i] = "pause") =>
        /\ ~(ev'.beep /\ ev'.id = i)
        /\ ~isAlarmRinging'[i]

\* C17: a pause keeps session start, alarm time and threshold and silences
\* the beep; a resume keeps accumulated, session start and alarm time and
\* clears the stop time; so a session whose alarm has fired stays silent
\* after a pause and a resume, although displayed is at or above the
\* threshold.
C17_PauseResumeFrame ==
    [][\A i \in Timers :
          /\ PauseFrame(i)
          /\ ResumeFrame(i)
          /\ ResumeKeepsSessionStart(i)
          /\ SilentAfterPause(i)
      ]_vars

\* C17 without the session start of the resume
C17_RestOfFrame ==
    [][\A i \in Timers : PauseFrame(i) /\ ResumeFrame(i) /\ SilentAfterPause(i)]_vars

\* C18: a ringing timer is running and has an alarm time.
C18_RingingImpliesRunningAndFired ==
    \A i \in Timers :
        isAlarmRinging[i] => (isRunning[i] /\ alarmTriggeredTime[i] # Null)

\* C18 witness: the alarm rings in a session resumed after a pause, some time
\* after the tick that fired it.
C18_Witness ==
    /\ isAlarmRinging["timer1"]
    /\ accumulatedTime["timer1"] > 0
    /\ now > alarmTriggeredTime["timer1"]
    /\ alarmTriggeredTime["timer1"] # Null
    /\ ev.op = "clock"

\* C19: a timer has at most one live beep interval, the one held by
\* alarmIntervalRef, and has it only while ringing; so after a pause or a
\* reset, which clear the held one, none is left, also when the firing step
\* ran twice.
C19_OneBeepInterval ==
    \A i \in Timers :
        /\ beepIntervals[i] <= 1
        /\ beepIntervals[i] = (IF alarmIntervalRef[i] THEN 1 ELSE 0)
        /\ beepIntervals[i] > 0 => isAlarmRinging[i]
        /\ ev \in {Event("pause", i, FALSE), Event("reset", i, FALSE)} => beepIntervals[i] = 0

\* C19 witness: the firing step ran twice, the second time by a tick with a
\* stale view, and a pause then silenced the timer.
C19_Witness ==
    /\ ev = Event("pause", "timer1", FALSE)
    /\ refired["timer1"]
    /\ silencedBy["timer1"] = "pause"
    /\ alarmTriggeredTime["timer1"] = 65000
    /\ beepIntervals["timer1"] = 0
    /\ ~alarmIntervalRef["timer1"]

\* C20: a change of the threshold, by a preset or by the input, in any state
\* changes the threshold only: running, segment start, accumulated,
\* displayed, session start, stop time, alarm time, ringing and the beep
\* interval are as before, so raising it above the displayed value while
\* ringing neither silences the alarm nor clears the alarm time; and while
\* the timer is not running no step sets the alarm time, so lowering it
\* below the displayed value while paused fires nothing.
C20_ThresholdChangeFrame ==
    [][\A i \in Timers :
          /\ (ev'.op \in {"preset", "input"} /\ ev'.id = i) =>
                 <<isRunning[i], startTime[i], accumulatedTime[i], displayTime[i],
                   sessionStartTime[i], stopTime[i], alarmTriggeredTime[i],
                   isAlarmRinging[i], alarmIntervalRef[i], beepIntervals[i]>>'
                     = <<isRunning[i], startTime[i], accumulatedTime[i], displayTime[i],
                         sessionStartTime[i], stopTime[i], alarmTriggeredTime[i],
                         isAlarmRinging[i], alarmIntervalRef[i], beepIntervals[i]>>
          /\ (~isRunning[i] /\ alarmTriggeredTime[i] = Null) => alarmTriggeredTime'[i] = Null
      ]_vars

\* C20 witness: while the alarm fired at 60000 was ringing, the threshold was
\* raised from 1 to 15 minutes, above the displayed value; the alarm still
\* rings.
C20_Witness ==
    /\ ev = Event("preset", "timer1", FALSE)
    /\ alarmDuration["timer1"] = Num(InitialAlarmDuration)
    /\ isAlarmRinging["timer1"]
    /\ beepIntervals["timer1"] = 1
    /\ alarmTriggeredTime["timer1"] = 60000
    /\ displayTime["timer1"] = 60000

\* C20 second case: the threshold was lowered to 1 minute while paused with
\* 60000 accumulated; no alarm time is set.
C20_WitnessPaused ==
    /\ ev = Event("input", "timer1", FALSE)
    /\ alarmDuration["timer1"] = Txt(<<"1">>)
    /\ ~isRunning["timer1"]
    /\ accumulatedTime["timer1"] = 60000
    /\ alarmTriggeredTime["timer1"] = Null

====
